---- MODULE Spec2Model ----
(***************************************************************************)
(* A model of the Complex number component of nexu23/denomath:             *)
(*   src/mod.ts                 the helpers (toString, parseNum,           *)
(*                              parseComplex, isNotNil, exactsTo, ...)     *)
(*   src/src/numbers/complex.ts the Complex class and the constant C.i     *)
(*   src/src/arithmetic.ts      clamp                                      *)
(*                                                                         *)
(* Numbers.  A JavaScript number is modelled as a reduced fraction <<n,d>> *)
(* with d > 0, and NaN as <<0,0>> (+Infinity and -Infinity, which only the *)
(* discarded quotient of a division by zero produces here, as <<1,0>> and  *)
(* <<-1,0>>).  Floating-point rounding is not modelled: the arithmetic     *)
(* actions are enabled only on dyadic operands (fractions whose            *)
(* denominator is a power of two), on which IEEE arithmetic is exact       *)
(* within the magnitudes of the model, and only when the result is a       *)
(* short decimal of magnitude at most MaxAbs.  The sign of zero is not     *)
(* modelled: the code never distinguishes -0 from 0 (String(-0) is "0",    *)
(* -0 === 0, -0 < 0 is false).  Numbers rendered in exponent notation      *)
(* (magnitude >= 1e21 or < 1e-6) are beyond MaxAbs and are not modelled.   *)
(*                                                                         *)
(* Strings are sequences of one-character strings.                         *)
(***************************************************************************)
EXTENDS Integers, Sequences, FiniteSets

VARIABLES heap, born, last, calls, probe

vars == <<heap, born, last, calls, probe>>

(***************************************************************************)
(* Bounds of the model                                                     *)
(***************************************************************************)
\* the largest magnitude of a component an arithmetic result may have
MaxAbs == 20
\* the number of binary places of the operands of the arithmetic methods
MaxFracBits == 1
\* the number of method and constructor calls in a behaviour
MaxCalls == 2
\* the longest string handed to parseComplex in EvalSpec
MaxLen == 4

(***************************************************************************)
(* Numbers                                                                 *)
(***************************************************************************)
NaN == <<0, 0>>

Abs(n) == IF n < 0 THEN -n ELSE n

RECURSIVE Gcd(_, _)
Gcd(a, b) == IF b = 0 THEN a ELSE Gcd(b, a % b)

\* the fraction n/d (d # 0) in lowest terms with a positive denominator
Rat(n, d) ==
  LET g == Gcd(Abs(n), Abs(d))
      s == IF d < 0 THEN -1 ELSE 1
  IN  <<(s * n) \div g, (s * d) \div g>>

Num(n) == <<n, 1>>

IsNaN(v) == v = NaN

IsFinite(v) == v[2] > 0

Neg(a) == IF IsFinite(a) THEN <<-a[1], a[2]>> ELSE <<-a[1], 0>>

\* a + b, a - b, a * b of two numbers that are finite or NaN
Add(a, b) ==
  IF IsFinite(a) /\ IsFinite(b)
  THEN Rat(a[1] * b[2] + b[1] * a[2], a[2] * b[2])
  ELSE NaN

Sub(a, b) == Add(a, Neg(b))

Mul(a, b) ==
  IF IsFinite(a) /\ IsFinite(b) THEN Rat(a[1] * b[1], a[2] * b[2]) ELSE NaN

\* a / b: x/0 is NaN for x = 0 or NaN, and an infinity otherwise
Div(a, b) ==
  IF ~IsFinite(a) \/ ~IsFinite(b) THEN NaN
  ELSE IF b[1] = 0 THEN (IF a[1] = 0 THEN NaN
                         ELSE IF a[1] > 0 THEN <<1, 0>> ELSE <<-1, 0>>)
  ELSE Rat(a[1] * b[2], a[2] * b[1])

\* a < b; every comparison with NaN is false
Lt(a, b) == IsFinite(a) /\ IsFinite(b) /\ a[1] * b[2] < b[1] * a[2]

RECURSIVE Pow10(_)
Pow10(k) == IF k = 0 THEN 1 ELSE 10 * Pow10(k - 1)

\* how often the prime p divides d
RECURSIVE Exp(_, _)
Exp(d, p) == IF d % p = 0 THEN 1 + Exp(d \div p, p) ELSE 0

RECURSIVE PowOf(_, _)
PowOf(p, k) == IF k = 0 THEN 1 ELSE p * PowOf(p, k - 1)

\* the number of decimal places of a fraction with denominator d
Places(d) == IF Exp(d, 2) > Exp(d, 5) THEN Exp(d, 2) ELSE Exp(d, 5)

\* v has a finite decimal expansion
IsShortDecimal(v) ==
  IsFinite(v) /\ v[2] = PowOf(2, Exp(v[2], 2)) * PowOf(5, Exp(v[2], 5))

\* v is NaN or a dyadic fraction of at most MaxFracBits binary places: IEEE
\* arithmetic on such values is exact
IsExact(v) == IsNaN(v) \/ (IsFinite(v) /\ PowOf(2, MaxFracBits) % v[2] = 0)

\* a value the model can hold as the result of an arithmetic operation
Representable(v) ==
  IsNaN(v) \/ (IsShortDecimal(v) /\ Abs(v[1]) <= MaxAbs * v[2])

(***************************************************************************)
(* Strings and the number <-> string conversions of the language           *)
(***************************************************************************)
DigitChars == <<"0", "1", "2", "3", "4", "5", "6", "7", "8", "9">>

IsDigit(c) == \E k \in 1..10 : DigitChars[k] = c

DigitVal(c) == (CHOOSE k \in 1..10 : DigitChars[k] = c) - 1

\* \s of the regular expression
IsSpace(c) == c \in {" ", "\t", "\n"}

RECURSIVE IntDigits(_)
IntDigits(n) ==
  IF n < 10 THEN <<DigitChars[n + 1]>>
  ELSE IntDigits(n \div 10) \o <<DigitChars[(n % 10) + 1]>>

\* the first k decimal places of r/d, for 0 <= r < d
RECURSIVE FracDigits(_, _, _)
FracDigits(r, d, k) ==
  IF k = 0 THEN <<>>
  ELSE <<DigitChars[((r * 10) \div d) + 1]>> \o FracDigits((r * 10) % d, d, k - 1)

\* Number::toString of a number that is NaN, infinite or a short decimal
NumToString(v) ==
  IF IsNaN(v) THEN <<"N", "a", "N">>
  ELSE IF ~IsFinite(v)
  THEN (IF v[1] < 0 THEN <<"-">> ELSE <<>>)
       \o <<"I", "n", "f", "i", "n", "i", "t", "y">>
  ELSE LET n == Abs(v[1])
           d == v[2]
           k == Places(d)
       IN  (IF v[1] < 0 THEN <<"-">> ELSE <<>>)
           \o IntDigits(n \div d)
           \o (IF d = 1 THEN <<>>
               ELSE <<".">> \o FracDigits(n % d, d, k))

\* the number of digits of s from position i on
RECURSIVE RunLen(_, _)
RunLen(s, i) ==
  IF i <= Len(s) /\ IsDigit(s[i]) THEN 1 + RunLen(s, i + 1) ELSE 0

\* the value of the k digits of s from position i on
RECURSIVE DigitsVal(_, _, _)
DigitsVal(s, i, k) ==
  IF k = 0 THEN 0 ELSE 10 * DigitsVal(s, i, k - 1) + DigitVal(s[i + k - 1])

RECURSIVE TrimLeft(_)
TrimLeft(s) == IF s # <<>> /\ IsSpace(s[1]) THEN TrimLeft(Tail(s)) ELSE s

\* parseFloat: the value of the longest prefix of s (after leading white
\* space) that is a decimal literal, NaN when there is none.  Exponents and
\* the literal Infinity are not modelled: no string of the model holds them.
ParseFloat(s) ==
  LET t   == TrimLeft(s)
      sg  == IF t # <<>> /\ t[1] \in {"+", "-"} THEN 1 ELSE 0
      m   == RunLen(t, sg + 1)
      dot == Len(t) >= sg + m + 1 /\ t[sg + m + 1] = "."
      f   == IF dot THEN RunLen(t, sg + m + 2) ELSE 0
      mag == Add(Num(DigitsVal(t, sg + 1, m)),
                 Rat(DigitsVal(t, sg + m + 2, f), Pow10(f)))
  IN  IF m = 0 /\ f = 0 THEN NaN
      ELSE IF sg = 1 /\ t[1] = "-" THEN Neg(mag) ELSE mag

(***************************************************************************)
(* Values handed to the library: nil (undefined or null), a number, a      *)
(* string, or (for the operands of Complex methods) a Complex object       *)
(***************************************************************************)
Nil == [t |-> "nil"]

N(n) == [t |-> "num", n |-> n]

S(s) == [t |-> "str", s |-> s]

\* mod.ts isNotNil
isNotNil(value) == value.t # "nil"

\* mod.ts toString, of a value that is not nil
toString(value) == IF value.t = "str" THEN value.s ELSE NumToString(value.n)

\* mod.ts parseNum: value ?? '0', then parseFloat of its string
parseNum(value) ==
  ParseFloat(toString(IF isNotNil(value) THEN value ELSE S(<<"0">>)))

\* mod.ts isNegative
isNegative(value) == Lt(parseNum(value), Num(0))

\* mod.ts exactsTo
exactsTo(a, b) == toString(a) = toString(b)

(***************************************************************************)
(* mod.ts parseComplex                                                     *)
(***************************************************************************)
StripSpace(s) == SelectSeq(s, LAMBDA c : ~IsSpace(c))

\* \d+(\.\d+)? matching all of s
IsUnsigned(s) ==
  LET m == RunLen(s, 1)
  IN  /\ m >= 1
      /\ \/ m = Len(s)
         \/ /\ Len(s) >= m + 2
            /\ s[m + 1] = "."
            /\ RunLen(s, m + 2) = Len(s) - m - 1

Unsign(s) == IF s # <<>> /\ s[1] \in {"+", "-"} THEN Tail(s) ELSE s

\* group 1 of the regular expression, [+-]?(\d+(\.\d+)?), matching all of s
MatchesReal(s) == IsUnsigned(Unsign(s))

\* group 4, [+-]?(\d+(\.\d+)?)?i under the flag /i, matching all of s
MatchesImag(s) ==
  /\ s # <<>>
  /\ s[Len(s)] \in {"i", "I"}
  /\ LET u == Unsign(SubSeq(s, 1, Len(s) - 1))
     IN  u = <<>> \/ IsUnsigned(u)

\* the lengths group 1 can have in a match of the whole of str
Splits(str) ==
  {k \in 0..Len(str) :
     /\ k = 0 \/ MatchesReal(SubSeq(str, 1, k))
     /\ k = Len(str) \/ MatchesImag(SubSeq(str, k + 1, Len(str)))}

\* the groups of the match that gives group 1 the longest of the lengths K
\* (<<>> stands for a group that is undefined)
Groups(str, K) ==
  IF K = {} THEN [matched |-> FALSE, g1 |-> <<>>, g4 |-> <<>>]
  ELSE [matched |-> TRUE,
        g1 |-> SubSeq(str, 1, CHOOSE x \in K : \A y \in K : y <= x),
        g4 |-> SubSeq(str, (CHOOSE x \in K : \A y \in K : y <= x) + 1, Len(str))]

\* str.match(regex): the optional groups are greedy and group 1 comes first,
\* so the backtracking matcher settles on the longest group 1 that lets the
\* rest of the string match
RegexMatch(str) == Groups(str, Splits(str))

\* String.prototype.replace(c, ''): s without the first occurrence of c
RECURSIVE ReplaceFirst(_, _)
ReplaceFirst(s, c) ==
  IF s = <<>> THEN <<>>
  ELSE IF s[1] = c THEN Tail(s)
  ELSE <<s[1]>> \o ReplaceFirst(Tail(s), c)

Thrown(e) == [ok |-> FALSE, err |-> e, re |-> NaN, im |-> NaN]

\* const realPart = match[1] ? parseFloat(match[1]) : 0
RealPart(g1) == IF g1 # <<>> THEN ParseFloat(g1) ELSE Num(0)

\* the imaginary part, from match[4] and imagStr = match[4].replace('i', '')
ImaginaryPart(g4, imagStr) ==
  IF g4 = <<>> THEN Num(0)
  ELSE IF imagStr = <<"+">> \/ imagStr = <<>> THEN Num(1)
  ELSE IF imagStr = <<"-">> THEN Num(-1)
  ELSE ParseFloat(imagStr)

\* parseComplex from `if (!match)` on
ParseMatch(match) ==
  IF ~match.matched THEN Thrown("Error: Invalid complex number format")
  ELSE [ok |-> TRUE, err |-> "",
        re |-> RealPart(match.g1),
        im |-> ImaginaryPart(match.g4, ReplaceFirst(match.g4, "i"))]

parseComplex(complex) ==
  IF ~isNotNil(complex) THEN Thrown("Error: Required a number o a string")
  ELSE ParseMatch(RegexMatch(StripSpace(toString(complex))))

(***************************************************************************)
(* complex.ts: the class Complex.  An object is a record of its fields     *)
(* real, imaginary and #immutable.  A call yields                          *)
(*   ok    whether it returned (FALSE: it threw err)                       *)
(*   this  the receiver's fields when the call ended                       *)
(*   ret   the fields of the instance it returned (NoObject: none)         *)
(*   kind  "throw", or what it returned: "new" (a new instance), "this"    *)
(*         (the receiver itself) or "value" (no Complex)                   *)
(***************************************************************************)
NoObject == [real |-> NaN, imaginary |-> NaN, immutable |-> FALSE, none |-> TRUE]

Cx(o) == [t |-> "cx", o |-> o]

B(b) == [t |-> "bool", b |-> b]

\* the constructor from `const x = parseComplex(real)` on
Constructed(x, imaginary, immutable) ==
  IF ~x.ok THEN [ok |-> FALSE, err |-> x.err, obj |-> NoObject]
  ELSE [ok |-> TRUE, err |-> "",
        obj |-> [real |-> x.re,
                 imaginary |-> IF isNotNil(imaginary) THEN parseNum(imaginary)
                               ELSE x.im,
                 immutable |-> isNotNil(immutable) /\ immutable.b]]

\* constructor(real, imaginary?, immutable?)
Complex_constructor(real, imaginary, immutable) ==
  IF ~isNotNil(real)
  THEN [ok |-> FALSE, err |-> "SyntaxError: Required at least one parameter",
        obj |-> NoObject]
  ELSE Constructed(parseComplex(real), imaginary, immutable)

\* get isNegative
Complex_isNegative(this) == isNegative(N(this.imaginary))

\* get isImaginary
Complex_isImaginary(this) == ~exactsTo(N(this.imaginary), N(Num(0)))

\* a faulty variant of isPure: the real part is not looked at
IsPureLoose(this) == Complex_isImaginary(this)

\* get isPure
Complex_isPure(this) == Complex_isImaginary(this) /\ this.real = Num(0)

MathAbs(v) == IF IsFinite(v) THEN <<Abs(v[1]), v[2]>> ELSE v

\* toString()
Complex_toString(this) ==
  IF Complex_isPure(this) THEN NumToString(this.imaginary) \o <<"i">>
  ELSE IF Complex_isImaginary(this)
  THEN NumToString(this.real)
       \o (IF Complex_isNegative(this) THEN <<"-">> ELSE <<"+">>)
       \o NumToString(MathAbs(this.imaginary))
       \o <<"i">>
  ELSE NumToString(this.real)

\* parseValue(complex)
parseValue(complex) ==
  IF complex.t = "cx" THEN parseComplex(S(Complex_toString(complex.o)))
  ELSE parseComplex(complex)

Throws(this, e) ==
  [ok |-> FALSE, err |-> e, this |-> this, ret |-> NoObject, kind |-> "throw"]

Returns(this, ret) ==
  [ok |-> TRUE, err |-> "", this |-> this, ret |-> ret, kind |-> "new"]

ReturnsThis(this) ==
  [ok |-> TRUE, err |-> "", this |-> this, ret |-> this, kind |-> "this"]

ReturnsValue(this) ==
  [ok |-> TRUE, err |-> "", this |-> this, ret |-> NoObject, kind |-> "value"]

\* the outcome of a method that ends in `return new Complex(...)`, c being
\* the outcome of that constructor call and this the receiver by then
ReturnNew(this, c) == IF c.ok THEN Returns(this, c.obj) ELSE Throws(this, c.err)

\* a faulty variant of StoreAndReturn: the store is not guarded by #immutable
StoreAlways(this, a, b) ==
  ReturnNew([this EXCEPT !.real = a, !.imaginary = b],
            Complex_constructor(N(a), N(b), Nil))

\* if (!this.#immutable) { this.real = a; this.imaginary = b }
\* return new Complex(a, b)
StoreAndReturn(this, a, b) ==
  ReturnNew(IF ~this.immutable
            THEN [this EXCEPT !.real = a, !.imaginary = b]
            ELSE this,
            Complex_constructor(N(a), N(b), Nil))

\* sum, from `const result` on; p is parseValue(imaginary)
SumOf(this, p) ==
  IF ~p.ok THEN Throws(this, p.err)
  ELSE StoreAndReturn(this, Add(p.re, this.real), Add(p.im, this.imaginary))

\* sum(imaginary)
Complex_sum(this, imaginary) == SumOf(this, parseValue(imaginary))

\* minus, from `const result` on; p is parseValue(imaginary)
MinusOf(this, p) ==
  IF ~p.ok THEN Throws(this, p.err)
  ELSE StoreAndReturn(this, Sub(this.real, p.re), Sub(this.imaginary, p.im))

\* minus(imaginary)
Complex_minus(this, imaginary) == MinusOf(this, parseValue(imaginary))

\* multiply, from `const reals` on; x is parseValue(value)
MultiplyOf(this, x) ==
  IF ~x.ok THEN Throws(this, x.err)
  ELSE StoreAndReturn(this,
                      Sub(Mul(x.re, this.real), Mul(x.im, this.imaginary)),
                      Add(Mul(x.re, this.imaginary), Mul(x.im, this.real)))

\* multiply(value)
Complex_multiply(this, value) == MultiplyOf(this, parseValue(value))

\* a faulty variant of DivideBy: the test of denom comes after the store
DivideStoreFirst(this, denom, real, imaginary) ==
  IF denom = Num(0)
  THEN Throws(IF ~this.immutable
              THEN [this EXCEPT !.real = Div(real, denom),
                                !.imaginary = Div(imaginary, denom)]
              ELSE this,
              "Error: No number can be divided by zero")
  ELSE StoreAndReturn(this, Div(real, denom), Div(imaginary, denom))

\* divide, from `if (denom === 0)` on
DivideBy(this, denom, real, imaginary) ==
  IF denom = Num(0) THEN Throws(this, "Error: No number can be divided by zero")
  ELSE StoreAndReturn(this, Div(real, denom), Div(imaginary, denom))

\* divide, from `const denom` on; x is parseValue(denominator)
DivideOf(this, x) ==
  IF ~x.ok THEN Throws(this, x.err)
  ELSE DivideBy(this,
                Add(Mul(x.re, x.re), Mul(x.im, x.im)),
                Add(Mul(x.re, this.real), Mul(x.im, this.imaginary)),
                Sub(Mul(this.imaginary, x.re), Mul(this.real, x.im)))

\* divide(denominator)
Complex_divide(this, denominator) == DivideOf(this, parseValue(denominator))

\* Math.max and Math.min: NaN when an argument is NaN
MathMax(a, b) == IF IsNaN(a) \/ IsNaN(b) THEN NaN ELSE IF Lt(a, b) THEN b ELSE a

MathMin(a, b) == IF IsNaN(a) \/ IsNaN(b) THEN NaN ELSE IF Lt(b, a) THEN b ELSE a

\* arithmetic.ts clamp(value, min, max)
clamp(value, min, max) ==
  MathMin(MathMax(parseNum(value), parseNum(min)), parseNum(max))

\* Number.MAX_SAFE_INTEGER is 2^53 - 1; 2^30 - 1 stands for it, the largest
\* such integer the 32-bit comparisons with halves leave room for (every
\* exponent of the model is far below both)
MAX_SAFE_INTEGER == <<1073741823, 1>>

\* the loop of pow: for (let i = 1; i < n; i++) result = result.multiply(this)
\* PowStep takes the outcome m of the multiplication of iteration i
RECURSIVE PowLoop(_, _, _, _)
RECURSIVE PowStep(_, _, _, _)
PowStep(m, this, i, n) == IF m.ok THEN PowLoop(m.ret, this, i + 1, n) ELSE m

PowLoop(result, this, i, n) ==
  IF Lt(Num(i), n) THEN PowStep(Complex_multiply(result, Cx(this)), this, i, n)
  ELSE Returns(result, result)

\* a faulty variant of PowStore: the receiver is never written
PowKeep(this, r) == IF ~r.ok THEN Throws(this, r.err) ELSE Returns(this, r.ret)

\* pow, after the loop; r is the outcome of the loop
PowStore(this, r) ==
  IF ~r.ok THEN Throws(this, r.err)
  ELSE Returns(IF ~this.immutable
               THEN [this EXCEPT !.imaginary = r.ret.imaginary, !.real = r.ret.real]
               ELSE this,
               r.ret)

\* a faulty variant of PowFrom: when the loop has nothing to do, the receiver
\* itself is returned
PowSame(this, n, c) ==
  IF ~c.ok THEN Throws(this, c.err)
  ELSE IF ~Lt(Num(1), n) THEN ReturnsThis(this)
  ELSE PowStore(this, PowLoop(c.obj, this, 1, n))

\* pow, from the loop on; c is the outcome of new Complex(this.real, this.imaginary)
PowFrom(this, n, c) ==
  IF ~c.ok THEN Throws(this, c.err) ELSE PowStore(this, PowLoop(c.obj, this, 1, n))

\* pow(exponent = 2)
Complex_pow(this, exponent) ==
  PowFrom(this,
         parseNum(N(clamp(IF isNotNil(exponent) THEN exponent ELSE N(Num(2)),
                          N(Num(0)), N(MAX_SAFE_INTEGER)))),
         Complex_constructor(N(this.real), N(this.imaginary), Nil))

\* the integer square root of n >= 0, searched upwards from r
RECURSIVE SqrtFrom(_, _)
SqrtFrom(n, r) == IF r * r >= n THEN r ELSE SqrtFrom(n, r + 1)

IsSquare(n) == SqrtFrom(n, 0) * SqrtFrom(n, 0) = n

\* v is NaN, negative, or the square of a fraction: Math.sqrt(v) is exact
HasExactSqrt(v) == ~IsFinite(v) \/ v[1] < 0 \/ (IsSquare(v[1]) /\ IsSquare(v[2]))

\* Math.sqrt of a number with an exact root; NaN for NaN and for negatives
MathSqrt(v) ==
  IF ~IsFinite(v) \/ v[1] < 0 THEN NaN
  ELSE <<SqrtFrom(v[1], 0), SqrtFrom(v[2], 0)>>

SumOfSquares(a, b) == Add(Mul(a, a), Mul(b, b))

\* Math.hypot(a, b)
MathHypot(a, b) == MathSqrt(SumOfSquares(a, b))

HypotExact(this) == HasExactSqrt(SumOfSquares(this.real, this.imaginary))

\* abs(): the value of the Real it returns
Complex_abs(this) == MathHypot(this.real, this.imaginary)

Half(v) == Div(v, Num(2))

\* sqrRoot, from `const SIGN` on; abs is this.abs().value
SqrRootOf(this, abs) ==
  ReturnNew(this,
            Complex_constructor(
              N(MathSqrt(Half(Add(abs, this.real)))),
              N(Mul(IF Lt(this.imaginary, Num(0)) THEN Num(-1) ELSE Num(1),
                    MathSqrt(MathAbs(Half(Sub(abs, this.real)))))),
              Nil))

\* the roots sqrRoot takes are exact
RootsExact(this, abs) ==
  /\ HasExactSqrt(Half(Add(abs, this.real)))
  /\ HasExactSqrt(MathAbs(Half(Sub(abs, this.real))))

SqrRootExact(this) == HypotExact(this) /\ RootsExact(this, Complex_abs(this))

\* sqrRoot()
Complex_sqrRoot(this) == SqrRootOf(this, Complex_abs(this))

\* mod.ts isFloat
isFloat(value) == \E k \in 1..Len(toString(value)) : toString(value)[k] = "."

\* toJSON()
Complex_toJSON(this) ==
  [imaginary   |-> this.imaginary,
   isFloat     |-> isFloat(N(this.imaginary)),
   isImaginary |-> Complex_isImaginary(this),
   isNegative  |-> Complex_isNegative(this),
   real        |-> this.real]

\* clone(immutable?)
Complex_clone(this, immutable) ==
  ReturnNew(this, Complex_constructor(N(this.real), N(this.imaginary),
                                      B(isNotNil(immutable) /\ immutable.b)))

\* get immutable
Complex_immutable(this) ==
  IF ~this.immutable
  THEN ReturnNew(this, Complex_constructor(N(this.real), N(this.imaginary), B(TRUE)))
  ELSE ReturnsThis(this)

(***************************************************************************)
(* mod.ts requires, and arithmetic.ts divide and pow.  A call yields ok,   *)
(* the error thrown (err) or the number returned (val).                    *)
(***************************************************************************)
\* requires(arr) throws: `!isNotNil(arr[0]) || !isNotNil(arr[0])`
requires(arr) == ~isNotNil(arr[1]) \/ ~isNotNil(arr[1])

Failed(e) == [ok |-> FALSE, err |-> e, val |-> NaN]

Value(v) == [ok |-> TRUE, err |-> "", val |-> v]

\* divide(x, y)
divide(x, y) ==
  IF requires(<<x, y>>) THEN Failed("ReferenceError: Required two or more numbers")
  ELSE IF parseNum(y) = Num(0)
       THEN Failed("SyntaxError: No number can be divided by zero")
  ELSE Value(Div(parseNum(x), parseNum(y)))

\* the integer cube root of n >= 0, searched upwards from r
RECURSIVE CbrtFrom(_, _)
CbrtFrom(n, r) == IF r * r * r >= n THEN r ELSE CbrtFrom(n, r + 1)

\* Math.cbrt of a number with an exact root
MathCbrt(v) ==
  IF ~IsFinite(v) THEN v
  ELSE <<(IF v[1] < 0 THEN -1 ELSE 1) * CbrtFrom(Abs(v[1]), 0), CbrtFrom(v[2], 0)>>

\* a to the power k, a whole number k >= 0
RECURSIVE Times(_, _)
Times(a, k) == IF k = 0 THEN Num(1) ELSE Mul(a, Times(a, k - 1))

\* Math.pow(a, b) for a whole number b: 1 for b = 0, whatever a is
MathPow(a, b) ==
  IF b[1] >= 0 THEN Times(a, b[1]) ELSE Div(Num(1), Times(a, -b[1]))

\* pow(base, exponent); isFloat(exponent) throws in toString when exponent is
\* nil, and is only reached for a negative base
pow(base, exponent) ==
  IF requires(<<base, exponent>>)
  THEN Failed("ReferenceError: Required two or more numbers")
  ELSE IF isNegative(base) /\ ~isNotNil(exponent)
       THEN Failed("Error: Required a number o a string")
  ELSE IF isNegative(base) /\ isFloat(exponent)
       THEN Failed("SyntaxError: Complex numbers are not supported at pow")
  ELSE IF parseNum(exponent) = <<1, 2>> THEN Value(MathSqrt(parseNum(base)))
  ELSE IF parseNum(exponent) = <<1, 3>> THEN Value(MathCbrt(parseNum(base)))
  ELSE Value(MathPow(parseNum(base), parseNum(exponent)))

(***************************************************************************)
(* The state.                                                              *)
(*   heap   the Complex instances alive, by identity (their index)         *)
(*   born   history: the fields each instance was constructed with, the    *)
(*          call that constructed it and that call's receiver              *)
(*   last   history: the last call, its receiver, argument and outcome     *)
(*   calls  the number of calls made                                       *)
(*   probe  the input and the result of an evaluation of EvalSpec          *)
(***************************************************************************)
NoVal == [k |-> "none"]

NoCall ==
  [op |-> "none", recv |-> 0, arg |-> Nil, ok |-> TRUE, err |-> "", ret |-> 0,
   before |-> NoObject, val |-> NoVal]

Idle == [kind |-> "idle"]

\* complex.ts C: Object.freeze({ i: new Complex('i') }), built at load time
C_i == Complex_constructor(S(<<"i">>), Nil, Nil).obj

Birth(o, op, from) ==
  [real |-> o.real, imaginary |-> o.imaginary, immutable |-> o.immutable,
   op |-> op, from |-> from]

Init ==
  /\ heap = <<C_i>>
  /\ born = <<Birth(C_i, "new", 0)>>
  /\ last = NoCall
  /\ calls = 0
  /\ probe = Idle

\* the arguments the model constructs instances with
CtorArgs ==
  { <<Nil, Nil, Nil>>,
    <<N(Num(0)), Nil, Nil>>,
    <<N(Num(1)), N(Num(1)), Nil>>,
    <<N(Num(1)), N(Num(1)), B(TRUE)>>,
    <<S(<<"2", "+", "i">>), Nil, B(TRUE)>>,
    <<N(Num(0)), N(Num(2)), B(TRUE)>>,
    <<N(<<3, 2>>), N(Num(-2)), Nil>>,
    <<N(Num(2)), S(<<"x">>), Nil>>,
    <<S(<<"x">>), Nil, Nil>> }

\* the operands of the arithmetic methods: a number, a string, an instance
Ref(id) == [t |-> "ref", id |-> id]

Operands ==
  {N(Num(0)), N(Num(2)), S(<<"0">>), S(<<"x">>), S(<<"I">>)}
    \cup {Ref(o) : o \in 1..Len(heap)}

Resolve(arg) == IF arg.t = "ref" THEN Cx(heap[arg.id]) ELSE arg

\* the exponents handed to pow
Exponents == {Nil, N(Num(0)), N(Num(1)), N(Num(3)), N(<<5, 2>>), N(Num(-1))}

\* the call stays within the numbers of the model
Modelled(res) ==
  /\ Representable(res.this.real)
  /\ Representable(res.this.imaginary)
  /\ res.kind = "new" =>
       Representable(res.ret.real) /\ Representable(res.ret.imaginary)

\* the arithmetic of the call is exact
ExactParsed(p) == p.ok => IsExact(p.re) /\ IsExact(p.im)

ExactArgs(this, arg) ==
  IsExact(this.real) /\ IsExact(this.imaginary) /\ ExactParsed(parseValue(arg))

\* the effect of a call of method op on instance r
Call(op, r, arg, res, val) ==
  /\ calls < MaxCalls
  /\ Modelled(res)
  /\ heap' = LET h == [heap EXCEPT ![r] = res.this]
             IN  IF res.kind = "new" THEN Append(h, res.ret) ELSE h
  /\ born' = IF res.kind = "new" THEN Append(born, Birth(res.ret, op, r)) ELSE born
  /\ last' = [op |-> op, recv |-> r, arg |-> arg, ok |-> res.ok, err |-> res.err,
              ret |-> IF res.kind = "new" THEN Len(heap) + 1
                      ELSE IF res.kind = "this" THEN r ELSE 0,
              before |-> heap[r], val |-> val]
  /\ calls' = calls + 1
  /\ UNCHANGED probe

Construct ==
  \E a \in CtorArgs :
    LET c == Complex_constructor(a[1], a[2], a[3])
    IN  /\ calls < MaxCalls
        /\ heap' = IF c.ok THEN Append(heap, c.obj) ELSE heap
        /\ born' = IF c.ok THEN Append(born, Birth(c.obj, "new", 0)) ELSE born
        /\ last' = [op |-> "new", recv |-> 0, arg |-> a[1], ok |-> c.ok,
                    err |-> c.err, ret |-> IF c.ok THEN Len(heap) + 1 ELSE 0,
                    before |-> NoObject, val |-> NoVal]
        /\ calls' = calls + 1
        /\ UNCHANGED probe

Sum ==
  /\ calls < MaxCalls
  /\ \E r \in 1..Len(heap), arg \in Operands :
       /\ ExactArgs(heap[r], Resolve(arg))
       /\ Call("sum", r, arg, Complex_sum(heap[r], Resolve(arg)), NoVal)

Minus ==
  /\ calls < MaxCalls
  /\ \E r \in 1..Len(heap), arg \in Operands :
       /\ ExactArgs(heap[r], Resolve(arg))
       /\ Call("minus", r, arg, Complex_minus(heap[r], Resolve(arg)), NoVal)

Multiply ==
  /\ calls < MaxCalls
  /\ \E r \in 1..Len(heap), arg \in Operands :
       /\ ExactArgs(heap[r], Resolve(arg))
       /\ Call("multiply", r, arg, Complex_multiply(heap[r], Resolve(arg)), NoVal)

Divide ==
  /\ calls < MaxCalls
  /\ \E r \in 1..Len(heap), arg \in Operands :
       /\ ExactArgs(heap[r], Resolve(arg))
       /\ Call("divide", r, arg, Complex_divide(heap[r], Resolve(arg)), NoVal)

Pow ==
  /\ calls < MaxCalls
  /\ \E r \in 1..Len(heap), e \in Exponents :
       /\ ExactArgs(heap[r], Cx(heap[r]))
       /\ Call("pow", r, e, Complex_pow(heap[r], e), NoVal)

AbsOf ==
  /\ calls < MaxCalls
  /\ \E r \in 1..Len(heap) :
       /\ IsExact(heap[r].real) /\ IsExact(heap[r].imaginary)
       /\ HypotExact(heap[r])
       /\ Call("abs", r, Nil, ReturnsValue(heap[r]),
               [k |-> "num", n |-> Complex_abs(heap[r])])

SqrRoot ==
  /\ calls < MaxCalls
  /\ \E r \in 1..Len(heap) :
       /\ IsExact(heap[r].real) /\ IsExact(heap[r].imaginary)
       /\ SqrRootExact(heap[r])
       /\ Call("sqrRoot", r, Nil, Complex_sqrRoot(heap[r]), NoVal)

ToString ==
  /\ calls < MaxCalls
  /\ \E r \in 1..Len(heap) :
       Call("toString", r, Nil, ReturnsValue(heap[r]),
            [k |-> "str", s |-> Complex_toString(heap[r])])

ToJSON ==
  /\ calls < MaxCalls
  /\ \E r \in 1..Len(heap) :
       Call("toJSON", r, Nil, ReturnsValue(heap[r]),
            [k |-> "json", o |-> Complex_toJSON(heap[r])])

Clone ==
  /\ calls < MaxCalls
  /\ \E r \in 1..Len(heap), f \in {Nil, B(TRUE)} :
       Call("clone", r, f, Complex_clone(heap[r], f), NoVal)

Immutable ==
  /\ calls < MaxCalls
  /\ \E r \in 1..Len(heap) :
       Call("immutable", r, Nil, Complex_immutable(heap[r]), NoVal)

Next ==
  \/ Construct
  \/ Sum
  \/ Minus
  \/ Multiply
  \/ Divide
  \/ Pow
  \/ AbsOf
  \/ SqrRoot
  \/ ToString
  \/ ToJSON
  \/ Clone
  \/ Immutable

Spec == Init /\ [][Next]_vars

(***************************************************************************)
(* EvalSpec: single evaluations on inputs drawn from bounded sets.         *)
(*   parse       parseComplex(s)                                           *)
(*   round       parseComplex(new Complex(a, b).toString())                *)
(*   commute     new Complex(a, b).sum(new Complex(c, d)) and              *)
(*               new Complex(c, d).sum(new Complex(a, b))                  *)
(*   distribute  x.multiply(y.sum(z)) and x.multiply(y).sum(x.multiply(z)) *)
(*               each on fresh mutable instances x, y, z of the same       *)
(*               values, in the evaluation order of the language           *)
(*   inverse     x.multiply(y).divide(y)                                   *)
(*   root        z.sqrRoot().pow(2), z mutable or immutable                *)
(*   free        new Complex(x, y), and the functions divide(x, y) and     *)
(*               pow(x, y) of arithmetic.ts                                *)
(***************************************************************************)
Alphabet == {"0", "2", "5", "+", "-", ".", "i", "I", " ", "x"}

RECURSIVE StringsOf(_)
StringsOf(n) ==
  IF n = 0 THEN {<<>>}
  ELSE {<<>>} \cup {<<c>> \o s : c \in Alphabet, s \in StringsOf(n - 1)}

\* the components of the instances of round: plain decimals
Decimals ==
  {Num(0), Num(1), Num(-1), Num(5), Num(12), <<3, 2>>, <<-5, 2>>, <<1, 4>>, <<1, 10>>}

\* the arguments of free
FreeArgs == {Nil, N(Num(4)), N(Num(-2)), N(Num(0)), N(<<1, 2>>), S(<<"2">>)}

\* the components of the instances of root
Radicands == {Num(-4), Num(-3), Num(0), Num(2), Num(3), Num(4)}

\* the components of the instances of commute and distribute
Smalls == {Num(-1), Num(0), Num(1), Num(2)}

Units == {Num(0), Num(1), Num(2)}

\* new Complex(a, b), of numbers a and b
Fresh(a, b) == Complex_constructor(N(a), N(b), Nil).obj

Pair(o) == <<o.real, o.imaginary>>

EvalInit ==
  /\ heap = <<C_i>>
  /\ born = <<Birth(C_i, "new", 0)>>
  /\ last = NoCall
  /\ calls = 0
  /\ \/ \E s \in StringsOf(MaxLen) :
          probe = [kind |-> "parse", in |-> s, done |-> FALSE]
     \/ \E a \in Decimals, b \in Decimals :
          probe = [kind |-> "round", in |-> <<a, b>>, done |-> FALSE]
     \/ \E a \in Smalls, b \in Smalls, c \in Smalls, d \in Smalls :
          probe = [kind |-> "commute", in |-> <<a, b, c, d>>, done |-> FALSE]
     \/ \E x \in Units \X Units, y \in Units \X Units, z \in Units \X Units :
          probe = [kind |-> "distribute", in |-> <<x, y, z>>, done |-> FALSE]
     \/ \E x \in Smalls \X Smalls, y \in Smalls \X Smalls :
          probe = [kind |-> "inverse", in |-> <<x, y>>, done |-> FALSE]
     \/ \E a \in Radicands, b \in Radicands, f \in BOOLEAN :
          probe = [kind |-> "root", in |-> <<a, b, f>>, done |-> FALSE]
     \/ \E f \in {"new", "divide", "pow"}, x \in FreeArgs, y \in FreeArgs :
          probe = [kind |-> "free", in |-> <<f, x, y>>, done |-> FALSE]

Done(out) ==
  /\ probe' = [kind |-> probe.kind, in |-> probe.in, done |-> TRUE, out |-> out]
  /\ UNCHANGED <<heap, born, last, calls>>

EvalParse ==
  /\ probe.kind = "parse" /\ ~probe.done
  /\ Done(parseComplex(S(probe.in)))

EvalRound ==
  /\ probe.kind = "round" /\ ~probe.done
  /\ Done(parseComplex(S(Complex_toString(Fresh(probe.in[1], probe.in[2])))))

EvalCommute ==
  /\ probe.kind = "commute" /\ ~probe.done
  /\ Done([ab |-> Complex_sum(Fresh(probe.in[1], probe.in[2]),
                              Cx(Fresh(probe.in[3], probe.in[4]))),
           ba |-> Complex_sum(Fresh(probe.in[3], probe.in[4]),
                              Cx(Fresh(probe.in[1], probe.in[2])))])

\* x.multiply(y.sum(z))
Left(x, y, z) == Complex_multiply(x, Cx(Complex_sum(y, Cx(z)).ret))

\* r1.sum(x.multiply(z)), r1 being what x.multiply(y) returned and x the
\* receiver as that call left it
RightSum(x, r1, z) == Complex_sum(r1, Cx(Complex_multiply(x, Cx(z)).ret))

\* x.multiply(y).sum(x.multiply(z)): the receiver x.multiply(y) is evaluated
\* before the argument x.multiply(z)
Right(x, y, z) ==
  RightSum(Complex_multiply(x, Cx(y)).this, Complex_multiply(x, Cx(y)).ret, z)

EvalDistribute ==
  /\ probe.kind = "distribute" /\ ~probe.done
  /\ Done([left  |-> Left(Fresh(probe.in[1][1], probe.in[1][2]),
                          Fresh(probe.in[2][1], probe.in[2][2]),
                          Fresh(probe.in[3][1], probe.in[3][2])),
           right |-> Right(Fresh(probe.in[1][1], probe.in[1][2]),
                           Fresh(probe.in[2][1], probe.in[2][2]),
                           Fresh(probe.in[3][1], probe.in[3][2]))])

\* the instance a call returned has components the arithmetic is exact on
ExactOutcome(res) == res.ok => IsExact(res.ret.real) /\ IsExact(res.ret.imaginary)

\* m.divide(y), m being what x.multiply(y) returned
ThenDivide(m, y) ==
  [m |-> m, d |-> IF m.ok THEN Complex_divide(m.ret, Cx(y)) ELSE m]

\* x.multiply(y).divide(y)
Inverse(x, y) == ThenDivide(Complex_multiply(x, Cx(y)), y)

EvalInverse ==
  /\ probe.kind = "inverse" /\ ~probe.done
  /\ ExactOutcome(Inverse(Fresh(probe.in[1][1], probe.in[1][2]),
                          Fresh(probe.in[2][1], probe.in[2][2])).d)
  /\ Done(Inverse(Fresh(probe.in[1][1], probe.in[1][2]),
                  Fresh(probe.in[2][1], probe.in[2][2])))

\* r.pow(2), r being what z.sqrRoot() returned and z the receiver by then
ThenSquare(z, r) ==
  [z |-> z, r |-> r, p |-> IF r.ok THEN Complex_pow(r.ret, N(Num(2))) ELSE r]

\* z.sqrRoot().pow(2)
RootSquared(z) == ThenSquare(Complex_sqrRoot(z).this, Complex_sqrRoot(z))

EvalRoot ==
  /\ probe.kind = "root" /\ ~probe.done
  /\ SqrRootExact(Complex_constructor(N(probe.in[1]), N(probe.in[2]),
                                      B(probe.in[3])).obj)
  /\ Done(RootSquared(Complex_constructor(N(probe.in[1]), N(probe.in[2]),
                                          B(probe.in[3])).obj))

\* the call of pow(base, exponent) stays within what MathSqrt and MathPow
\* compute: a whole exponent, or the exponent 1/2 and a base with an exact root
PowModelled(base, exponent) ==
  IF requires(<<base, exponent>>) \/ ~isNotNil(exponent) THEN TRUE
  ELSE IF isNegative(base) /\ isFloat(exponent) THEN TRUE
  ELSE IF parseNum(exponent) = <<1, 2>> THEN HasExactSqrt(parseNum(base))
  ELSE parseNum(exponent)[2] = 1

EvalFree ==
  /\ probe.kind = "free" /\ ~probe.done
  /\ probe.in[1] = "pow" => PowModelled(probe.in[2], probe.in[3])
  /\ Done(IF probe.in[1] = "new"
          THEN Complex_constructor(probe.in[2], probe.in[3], Nil)
          ELSE IF probe.in[1] = "divide" THEN divide(probe.in[2], probe.in[3])
          ELSE pow(probe.in[2], probe.in[3]))

EvalNext ==
  \/ EvalFree
  \/ EvalRoot
  \/ EvalParse
  \/ EvalRound
  \/ EvalCommute
  \/ EvalDistribute
  \/ EvalInverse

EvalSpec == EvalInit /\ [][EvalNext]_vars

(***************************************************************************)
(* Properties of Spec: the mutability contract and the failure paths.      *)
(***************************************************************************)
Arith == {"sum", "minus", "multiply", "divide", "pow"}

\* C1: an instance constructed immutable keeps, through every call made on
\* it or with it (failing calls included), the real and imaginary components
\* it was constructed with, and stays immutable.
C1_ImmutableUntouched ==
  \A o \in 1..Len(heap) :
    born[o].immutable =>
      /\ heap[o].real = born[o].real
      /\ heap[o].imaginary = born[o].imaginary
      /\ heap[o].immutable

\* an immutable instance was the receiver of a successful arithmetic call
\* whose result differs from it
C1_Witness ==
  /\ last.op \in Arith /\ last.ok
  /\ born[last.recv].immutable
  /\ Pair(heap[last.ret]) # Pair(heap[last.recv])

\* C2: after a successful sum, minus, multiply, divide or pow on a mutable
\* receiver, the receiver's (real, imaginary) is that of the returned instance.
C2_MutableReceiverFollows ==
  (last.op \in Arith /\ last.ok /\ ~last.before.immutable) =>
    Pair(heap[last.recv]) = Pair(heap[last.ret])

\* a mutable receiver was overwritten by a successful pow
C2_Witness ==
  /\ last.op = "pow" /\ last.ok
  /\ ~last.before.immutable
  /\ Pair(heap[last.recv]) # Pair(last.before)

\* C3: a successful sum, minus, multiply, divide or pow (pow(0) and pow(1)
\* included) returns an instance that did not exist before the call, so one
\* that is not the receiver, and that is mutable whatever the receiver is; and
\* no call changes an instance other than its receiver, so a later call on
\* the returned instance leaves the receiver as it is and a later call on the
\* receiver leaves the returned instance as it is.
C3_ReturnsFreshInstance ==
  [][calls' = calls + 1 =>
       /\ \A o \in 1..Len(heap) : o # last'.recv => heap'[o] = heap[o]
       /\ (last'.op \in Arith /\ last'.ok) =>
            /\ last'.ret = Len(heap) + 1
            /\ Len(heap') = Len(heap) + 1
            /\ last'.ret # last'.recv
            /\ ~heap'[last'.ret].immutable]_vars

\* the instance pow(0) or pow(1) returned was then overwritten by a call made
\* on it, and the receiver of the pow still holds what it held
C3_Witness ==
  /\ last.op \in Arith /\ last.ok
  /\ born[last.recv].op = "pow"
  /\ Pair(born[last.recv]) = Pair(born[born[last.recv].from])
  /\ Pair(heap[last.recv]) # Pair(last.before)
  /\ Pair(heap[born[last.recv].from]) = Pair(born[born[last.recv].from])

\* the operand of the last call, as it was when the call was made
OperandOf(l) ==
  IF l.arg.t = "ref"
  THEN Cx(IF l.arg.id = l.recv THEN l.before ELSE heap[l.arg.id])
  ELSE l.arg

\* the operand is the zero complex number: Complex(0,0), 0 or "0"
IsZeroOperand(x) ==
  \/ x.t = "cx" /\ x.o.real = Num(0) /\ x.o.imaginary = Num(0)
  \/ x = N(Num(0))
  \/ x = S(<<"0">>)

\* C4: divide by an operand that is the zero complex number raises the
\* division-by-zero error, returns no instance, and leaves the receiver,
\* mutable or not, as it was before the call.
C4_DivideByZero ==
  (last.op = "divide" /\ IsZeroOperand(OperandOf(last))) =>
    /\ ~last.ok
    /\ last.err = "Error: No number can be divided by zero"
    /\ last.ret = 0
    /\ heap[last.recv] = last.before

\* a mutable receiver was divided by an instance holding (0,0)
C4_Witness ==
  /\ last.op = "divide"
  /\ last.arg.t = "ref"
  /\ IsZeroOperand(OperandOf(last))
  /\ ~last.before.immutable
  /\ ~last.ok

\* C5: whenever sum, minus, multiply, divide or pow raises an error, for any
\* reason, the receiver's real and imaginary are what they were before the
\* call.
C5_FailureLeavesReceiver ==
  (last.op \in Arith /\ ~last.ok) => Pair(heap[last.recv]) = Pair(last.before)

(***************************************************************************)
(* Properties of EvalSpec: parsing, the round trip and the algebraic laws. *)
(***************************************************************************)
\* the value of an imaginary term t: its magnitude is 1 when it has no
\* digits, with the sign of the term
ImagValue(t) ==
  IF SubSeq(t, 1, Len(t) - 1) \in {<<>>, <<"+">>} THEN Num(1)
  ELSE IF SubSeq(t, 1, Len(t) - 1) = <<"-">> THEN Num(-1)
  ELSE ParseFloat(SubSeq(t, 1, Len(t) - 1))

\* the places where s divides into a real term and an imaginary term that
\* carries its sign
SignedSplits(s) ==
  {k \in 1..(Len(s) - 1) :
     /\ MatchesReal(SubSeq(s, 1, k))
     /\ s[k + 1] \in {"+", "-"}
     /\ MatchesImag(SubSeq(s, k + 1, Len(s)))}

\* s is a lone real term, a lone imaginary term, or a real term followed by a
\* signed imaginary term
IsTerms(s) == MatchesReal(s) \/ MatchesImag(s) \/ SignedSplits(s) # {}

SplitAt(s, k) ==
  <<ParseFloat(SubSeq(s, 1, k)), ImagValue(SubSeq(s, k + 1, Len(s)))>>

\* the pair the terms of s denote
Denoted(s) ==
  IF MatchesReal(s) THEN <<ParseFloat(s), Num(0)>>
  ELSE IF MatchesImag(s) THEN <<Num(0), ImagValue(s)>>
  ELSE SplitAt(s, CHOOSE k \in SignedSplits(s) : TRUE)

\* C6: parseComplex maps a string of the grammar to the pair its terms
\* denote: "a" to (a,0), "bi" to (0,b), "i" and "+i" to (0,1), "-i" to
\* (0,-1), "a+bi" to (a,b) and "a-bi" to (a,-b).
C6_ParsesTerms ==
  (probe.kind = "parse" /\ probe.done /\ IsTerms(StripSpace(probe.in))) =>
    /\ probe.out.ok
    /\ <<probe.out.re, probe.out.im>> = Denoted(StripSpace(probe.in))

\* C7: parseComplex raises the format error, and returns no pair, for every
\* input whose form without whitespace does not match the grammar in full;
\* the empty string and a string of whitespace only are such inputs.
C7_RejectsOthers ==
  (/\ probe.kind = "parse" /\ probe.done
   /\ \/ StripSpace(probe.in) = <<>>
      \/ Splits(StripSpace(probe.in)) = {}) =>
    /\ ~probe.out.ok
    /\ probe.out.err = "Error: Invalid complex number format"

\* C8: parseComplex(new Complex(a, b).toString()) is (a, b) for all plain
\* decimals a and b, the pure imaginary (a = 0) and the real (b = 0) included.
C8_RoundTrip ==
  (probe.kind = "round" /\ probe.done) =>
    /\ probe.out.ok
    /\ <<probe.out.re, probe.out.im>> = probe.in

\* C9: new Complex(a, b).sum(new Complex(c, d)) and
\* new Complex(c, d).sum(new Complex(a, b)) return instances of the same real
\* and imaginary, also when one of the two is pure imaginary.
C9_SumCommutes ==
  (probe.kind = "commute" /\ probe.done) =>
    /\ probe.out.ab.ok /\ probe.out.ba.ok
    /\ Pair(probe.out.ab.ret) = Pair(probe.out.ba.ret)

\* C10: for mutable x, y, z of exactly representable components,
\* x.multiply(y.sum(z)) and x.multiply(y).sum(x.multiply(z)) return the same
\* value.
C10_Distributes ==
  (probe.kind = "distribute" /\ probe.done) =>
    /\ probe.out.left.ok /\ probe.out.right.ok
    /\ Pair(probe.out.left.ret) = Pair(probe.out.right.ret)

\* (a+bi)/(c+di) = ((c*a + d*b)/(c^2 + d^2), (b*c - a*d)/(c^2 + d^2))
Quotient(x, y) ==
  <<Div(Add(Mul(y[1], x[1]), Mul(y[2], x[2])),
        Add(Mul(y[1], y[1]), Mul(y[2], y[2]))),
    Div(Sub(Mul(x[2], y[1]), Mul(x[1], y[2])),
        Add(Mul(y[1], y[1]), Mul(y[2], y[2])))>>

\* C11: for y other than 0+0i, x.multiply(y).divide(y) returns the value of
\* x, and the divide returns the quotient of its receiver (a,b) by the
\* operand (c,d): ((c*a + d*b)/(c^2 + d^2), (b*c - a*d)/(c^2 + d^2)).
C11_DivideInverts ==
  (probe.kind = "inverse" /\ probe.done /\ probe.in[2] # <<Num(0), Num(0)>>) =>
    /\ probe.out.d.ok
    /\ Pair(probe.out.d.ret) = probe.in[1]
    /\ Pair(probe.out.d.ret) = Quotient(Pair(probe.out.m.ret), probe.in[2])

\* (a+bi)(c+di) = (ac - bd) + (ad + bc)i
Product(x, y) ==
  <<Sub(Mul(x[1], y[1]), Mul(x[2], y[2])), Add(Mul(x[1], y[2]), Mul(x[2], y[1]))>>

\* the n-th power of z under Product, for n >= 1; z itself for n = 0
RECURSIVE Power(_, _)
Power(z, n) == IF n <= 1 THEN z ELSE Product(Power(z, n - 1), z)

\* the exponent of a call of pow is a whole number n >= 0 (2 when left out)
WholeExponent(e) == e = Nil \/ (IsFinite(e.n) /\ e.n[2] = 1 /\ e.n[1] >= 0)

WholeOf(e) == IF e = Nil THEN 2 ELSE e.n[1]

\* C12: z.pow(n) returns the n-th power of z under the product
\* (a+bi)(c+di) = (ac-bd)+(ad+bc)i for every whole n >= 1, and z.pow(0) and
\* z.pow(1) return the value of z; also for pure-imaginary z.
C12_PowIsPower ==
  (/\ last.op = "pow"
   /\ WholeExponent(last.arg)
   /\ IsFinite(last.before.real) /\ IsFinite(last.before.imaginary)) =>
    /\ last.ok
    /\ Pair(heap[last.ret]) = Power(Pair(last.before), WholeOf(last.arg))

\* C13: for z whose root has exactly representable components,
\* z.sqrRoot().pow(2) returns the value of z, also for negative real z, and
\* sqrRoot leaves the real and imaginary of z, mutable or immutable, as they
\* were.
C13_RootSquares ==
  (probe.kind = "root" /\ probe.done) =>
    /\ probe.out.r.ok /\ probe.out.p.ok
    /\ Pair(probe.out.p.ret) = <<probe.in[1], probe.in[2]>>
    /\ Pair(probe.out.z) = <<probe.in[1], probe.in[2]>>
    /\ probe.out.z.immutable = probe.in[3]

\* the three forms of the rendering of (re, im)
Rendering(re, im) ==
  IF re = Num(0) /\ im # Num(0) THEN NumToString(im) \o <<"i">>
  ELSE IF im # Num(0)
       THEN NumToString(re) \o <<IF Lt(im, Num(0)) THEN "-" ELSE "+">>
            \o NumToString(MathAbs(im)) \o <<"i">>
  ELSE NumToString(re)

\* C14: toString renders "{imaginary}i" when real is 0 and imaginary is not,
\* "{real}{sign}{|imaginary|}i", sign "-" for a negative imaginary and "+"
\* otherwise, when imaginary and real are not 0, and "{real}" when imaginary
\* is 0; it leaves the receiver as it was.
C14_ToStringForms ==
  last.op = "toString" =>
    /\ last.ok
    /\ last.val.s = Rendering(last.before.real, last.before.imaginary)
    /\ heap[last.recv] = last.before

\* an instance of negative imaginary and non-zero real part was rendered
C14_Witness ==
  /\ last.op = "toString"
  /\ Lt(last.before.imaginary, Num(0))
  /\ last.before.real # Num(0)
  /\ last.val.s = <<"1", ".", "5", "-", "2", "i">>

\* the error a call raises for an operand that is missing
MissingOperand(f) ==
  IF f = "new" THEN "SyntaxError: Required at least one parameter"
  ELSE "ReferenceError: Required two or more numbers"

\* C15: new Complex() without its real argument raises the missing-operand
\* error, and so do divide(x, y) and pow(base, exponent) when the first or
\* the second operand is undefined or null; they neither return a result nor
\* raise another error.
C15_MissingOperand ==
  (/\ probe.kind = "free" /\ probe.done
   /\ \/ probe.in[2] = Nil
      \/ probe.in[1] # "new" /\ probe.in[3] = Nil) =>
    /\ ~probe.out.ok
    /\ probe.out.err = MissingOperand(probe.in[1])

\* C16: the immutable accessor returns the receiver itself when it is
\* immutable, and otherwise a new, distinct, immutable instance of the same
\* real and imaginary; the receiver is left as it was; and the instance
\* obtained keeps its value through the calls made afterwards.
C16_ImmutableAccessor ==
  /\ last.op = "immutable" =>
       /\ last.ok
       /\ heap[last.recv] = last.before
       /\ last.before.immutable => last.ret = last.recv
       /\ ~last.before.immutable =>
            /\ last.ret = Len(heap) /\ last.ret # last.recv
            /\ born[last.ret].op = "immutable"
            /\ heap[last.ret].immutable
            /\ Pair(heap[last.ret]) = Pair(last.before)
  /\ \A o \in 1..Len(heap) :
       born[o].op = "immutable" =>
         heap[o].immutable /\ Pair(heap[o]) = Pair(born[o])

\* C17: the constant C.i (i of constants.ts) holds its initial value 0+1i
\* after any sequence of sum, minus, multiply, divide and pow called on it.
C17_ConstantKept == Pair(heap[1]) = <<Num(0), Num(1)>>

\* the result of op on the pairs x and y
ResultOf(op, x, y) ==
  IF op = "sum" THEN <<Add(x[1], y[1]), Add(x[2], y[2])>>
  ELSE IF op = "minus" THEN <<Sub(x[1], y[1]), Sub(x[2], y[2])>>
  ELSE IF op = "multiply" THEN Product(x, y)
  ELSE Quotient(x, y)

FinitePair(x) == IsFinite(x[1]) /\ IsFinite(x[2])

\* C18: sum, minus, multiply and divide with an operand that is a Complex
\* instance of components (c,d) use exactly (c,d) as the operand pair, also
\* when the operand is pure imaginary.
C18_OperandReadDirectly ==
  (/\ last.op \in {"sum", "minus", "multiply", "divide"}
   /\ last.arg.t = "ref"
   /\ FinitePair(Pair(last.before))
   /\ FinitePair(Pair(OperandOf(last).o))
   /\ last.op = "divide" => Pair(OperandOf(last).o) # <<Num(0), Num(0)>>) =>
    /\ last.ok
    /\ Pair(heap[last.ret]) =
         ResultOf(last.op, Pair(last.before), Pair(OperandOf(last).o))

\* the exponent e clamped to [0, MAX_SAFE_INTEGER] and truncated
Truncated(e) ==
  IF e = Nil THEN 2
  ELSE IF Lt(e.n, Num(0)) THEN 0
  ELSE IF Lt(MAX_SAFE_INTEGER, e.n) THEN MAX_SAFE_INTEGER[1]
  ELSE e.n[1] \div e.n[2]

\* result after m multiplications by the value of this
RECURSIVE Multiplied(_, _, _)
Multiplied(result, this, m) ==
  IF m = 0 THEN result
  ELSE Multiplied(Complex_multiply(result, Cx(this)).ret, this, m - 1)

\* C19: pow clamps its exponent to [0, MAX_SAFE_INTEGER], truncates it to a
\* count k and returns the receiver's value after max(k,1) - 1
\* multiplications by the receiver: a negative exponent behaves as pow(0),
\* pow(2.5) as pow(2).
C19_PowTruncates ==
  (last.op = "pow" /\ FinitePair(Pair(last.before))) =>
    /\ last.ok
    /\ Pair(heap[last.ret]) =
         Pair(Multiplied(last.before, last.before,
                         IF Truncated(last.arg) >= 1
                         THEN Truncated(last.arg) - 1 ELSE 0))

====
